---- MODULE Spec2Model ----
(***************************************************************************)
(* A model of the annotation store of the Lore extension: the upsert       *)
(* resolver (src/src/itemManager.ts and LoreManager.upsertLoreItem), the   *)
(* location tracker (LoreManager.adjustLoreLocations, both definitions in  *)
(* src/src/LoreManager.ts) and the manager's startup load.                 *)
(*                                                                         *)
(* The source tree holds several definitions of the same component.  The   *)
(* variable `variant` says which one a behaviour runs:                     *)
(*   "LM1"  class LoreManager, first definition  (LoreManager.ts 25-294)   *)
(*   "LM2"  class LoreManager, second definition (LoreManager.ts 315-543)  *)
(*   "IM"   the function upsertLoreItem of itemManager.ts, applied by the  *)
(*          command handlers to the snapshot they hold                     *)
(***************************************************************************)
EXTENDS Integers, Sequences, FiniteSets, TLC

VARIABLES
    variant,        \* which definition of the component runs
    loreSnapshot,   \* LoreManager.loreSnapshot / the handlers' json
    commentRanges,  \* LoreManager.commentRanges, the per-file index
    saveTimer,      \* debounce(): a timeout is pending
    now,            \* the clock read by Date.now() and nowISO()
    uuidCount,      \* how many ids uuidv4() has handed out
    disk,           \* the content of .lore.json
    calls,          \* asynchronous calls of the manager that are in flight,
                    \* and the edit panels that are open
    returned,       \* ids that upsertLoreItem has returned to its caller
    last,           \* the last operation: its inputs and what it did
    timerDue,       \* debounce(): the clock reading the pending timeout is due at
    mutation,       \* the last mutation of the store, and whether a save followed
    writes,         \* the safeWriteJson calls in flight
    tmpFiles,       \* the temporary files next to .lore.json, by name suffix
    passed,         \* the documents .lore.json held at first or was given since
    ensureCache,    \* fsUtils.ensureCache: the entry of the workspace root
    ensures,        \* the bodies of ensureLoreFile in flight
    waiters,        \* how many callers hold the pending promise of ensureCache
    isHighlightingEnabled   \* LoreManager.isHighlightingEnabled

vars == <<variant, loreSnapshot, commentRanges, saveTimer, now, uuidCount,
          disk, calls, returned, last, timerDue, mutation, writes, tmpFiles,
          passed, ensureCache, ensures, waiters, isHighlightingEnabled>>

\* The state of the debounce timer and of the file system calls.
timeVars == <<timerDue, mutation>>
fileVars == <<writes, tmpFiles, passed, ensureCache, ensures, waiters>>

----------------------------------------------------------------------------
(* Bounds of the model.                                                    *)

MaxItems == 2
MaxLine == 4
MaxClock == 1

----------------------------------------------------------------------------
(* Values.                                                                 *)

\* A payload field that is not there (undefined in the source).
Undefined == "<undefined>"

\* item.file values: paths relative to the workspace root.
Files == {"a.ts", "b.ts"}

\* path.join(workspaceRoot, item.file): the key of commentRanges and the
\* value of document.uri.fsPath.
JoinRoot(file) == <<"root", file>>

\* path.relative(workspaceRoot, filePath).replace(/\\/g, '/')
RelativeToRoot(filePath) == filePath[2]

\* a || b on strings: the empty string and undefined are falsy.
OrStr(a, b) == IF a # "" /\ a # Undefined THEN a ELSE b

\* a || b on numbers: 0 and undefined (modelled as 0) are falsy.
OrNum(a, b) == IF a # 0 THEN a ELSE b

\* a ?? b: only undefined gives way.
Nullish(a, b) == IF a # Undefined THEN a ELSE b

Max(a, b) == IF a >= b THEN a ELSE b
Min(a, b) == IF a <= b THEN a ELSE b

\* `lore-${Date.now()}`
DateId(t) == "lore-" \o ToString(t)

\* uuidv4(): the k-th identifier handed out; no two are equal.
Uuid(k) == "uuid-" \o ToString(k)

Range1(n) == 1..n

IndexOfId(items, id) ==
    LET hits == {i \in Range1(Len(items)) : items[i].id = id}
    IN  IF hits = {} THEN 0 ELSE CHOOSE i \in hits : \A j \in hits : i <= j

Item(id, state, file, startLine, endLine, summary, createdAt, updatedAt) ==
    [id |-> id, state |-> state, file |-> file, startLine |-> startLine,
     endLine |-> endLine, summary |-> summary, createdAt |-> createdAt,
     updatedAt |-> updatedAt]

----------------------------------------------------------------------------
(* The upsert resolver.                                                    *)

\* makeNewItem of LoreManager.upsertLoreItem and of itemManager.ts.
makeNewItem(id, payload, relFile, startLine, endLine, t) ==
    Item(id, "active",
         OrStr(payload.file, relFile),
         OrNum(payload.startLine, startLine),
         OrNum(payload.endLine, endLine),
         OrStr(payload.summary, ""),
         t, t)

\* A version of mergeItem that stamps createdAt like a new record.
mergeItemRestamped(existing, payload, relFile, startLine, endLine, t) ==
    [existing EXCEPT
        !.file = OrStr(payload.file, OrStr(relFile, existing.file)),
        !.startLine = OrNum(payload.startLine, OrNum(startLine, existing.startLine)),
        !.endLine = OrNum(payload.endLine, OrNum(endLine, existing.endLine)),
        !.summary = Nullish(payload.summary, existing.summary),
        !.createdAt = t,
        !.updatedAt = t]

\* The object literal `updated` of the merge branch.  itemManager.ts also
\* writes state: existing.state || 'active' and createdAt: existing.createdAt.
mergeItem(existing, payload, relFile, startLine, endLine, t) ==
    [existing EXCEPT
        !.state = IF variant = "IM" THEN OrStr(existing.state, "active")
                  ELSE existing.state,
        !.file = OrStr(payload.file, OrStr(relFile, existing.file)),
        !.startLine = OrNum(payload.startLine, OrNum(startLine, existing.startLine)),
        !.endLine = OrNum(payload.endLine, OrNum(endLine, existing.endLine)),
        !.summary = Nullish(payload.summary, existing.summary),
        !.updatedAt = t]

\* A generator that hands out the same identifier every time.
freshIdRepeated(t) == IF variant = "IM" THEN DateId(t) ELSE Uuid(1)

\* id ?? uuidv4() (LoreManager) and id ?? `lore-${Date.now()}` (itemManager),
\* for a call without payload.id.
freshId(t) == IF variant = "IM" THEN DateId(t) ELSE Uuid(uuidCount + 1)

\* A version of upsertId that never takes the id of the payload.
upsertIdGenerated(items, payload, t) == freshId(t)

\* The id the call returns and that the affected record carries: payload.id
\* when it is there (`if (payload.id)`), a generated one otherwise.
upsertId(items, payload, t) ==
    IF payload.id # "" THEN payload.id ELSE freshId(t)

\* findIndex(i => i.id === payload.id) under `if (payload.id)`: the position
\* of the record to merge into, 0 when a record is to be created.
mergeIndex(items, payload) ==
    IF payload.id # "" THEN IndexOfId(items, payload.id) ELSE 0

\* A version of upsertItems that pushes a record whatever the id.
upsertItemsPush(items, payload, relFile, startLine, endLine, t) ==
    Append(items, makeNewItem(upsertId(items, payload, t), payload,
                              relFile, startLine, endLine, t))

\* snapshot.items after the call: the merged record at idx, a created one
\* pushed at the end.
upsertItems(items, payload, relFile, startLine, endLine, t) ==
    LET idx == mergeIndex(items, payload)
    IN  IF idx > 0
        THEN [items EXCEPT ![idx] =
                 mergeItem(items[idx], payload, relFile, startLine, endLine, t)]
        ELSE Append(items, makeNewItem(upsertId(items, payload, t), payload,
                                       relFile, startLine, endLine, t))

\* The value of items.find(...) when no item matches.
NotFound == [id |-> Undefined]

\* getLoreItemById(id): items.find(item => item.id === id), the first match.
getLoreItemById(items, id) ==
    IF IndexOfId(items, id) = 0 THEN NotFound ELSE items[IndexOfId(items, id)]

----------------------------------------------------------------------------
(* The per-file index.                                                     *)

\* new vscode.Range(startLine, 0, endLine, 0): the constructor orders its
\* two positions.
RangeOf(startLine, endLine) ==
    [start |-> Min(startLine, endLine), end |-> Max(startLine, endLine)]

\* One pass of the loop of updateCommentRanges, from item i on.  An entry
\* keeps a reference to the item object: `item` is its position in
\* loreSnapshot.items, 0 once that object is no longer part of the snapshot.
RECURSIVE rangesFrom(_, _)
rangesFrom(items, i) ==
    IF i > Len(items) THEN <<>>
    ELSE LET it == items[i]
             r  == RangeOf(it.startLine - 1, it.endLine - 1)
         IN  IF it.startLine # 0 /\ it.endLine # 0
             THEN <<[file |-> JoinRoot(it.file), start |-> r.start,
                     end |-> r.end, item |-> i]>> \o rangesFrom(items, i + 1)
             ELSE rangesFrom(items, i + 1)

\* updateCommentRanges(): clear the map and rebuild it from the snapshot.
updateCommentRanges(snapshot) ==
    IF snapshot.isNull THEN <<>> ELSE rangesFrom(snapshot.items, 1)

----------------------------------------------------------------------------
(* The location tracker.                                                   *)

\* A content change: the 0-based lines of change.range and the number of
\* "\n" in change.text.
\* delta = (change.text.match(/\n/g) || []).length
\*         - (change.range.end.line - change.range.start.line)
Delta(change) == change.newLines - (change.endLine - change.startLine)

\* A version of movedRange that moves every record, wherever the change is.
movedRangeAnywhere(item, change) ==
    [start |-> item.startLine - 1 + Delta(change),
     end |-> item.endLine - 1 + Delta(change)]

\* Second definition, the body of `for (const item of items)` up to the
\* write-back: the 0-based start and end of one item after one change with
\* delta # 0.
movedRange(item, change) ==
    LET delta == Delta(change)
        c     == change.startLine
        start == item.startLine - 1
        end   == item.endLine - 1
    IN  IF start = end
        THEN IF c <= start
             THEN [start |-> start + delta, end |-> end + delta]
             ELSE [start |-> start, end |-> end]
        ELSE IF c < start
             THEN [start |-> start + delta, end |-> end + delta]
             ELSE IF c <= end
             THEN [start |-> start,
                   end |-> IF end + delta < start THEN start ELSE end + delta]
             ELSE [start |-> start, end |-> end]

\* A version of shiftItem without Math.max(1, ...).
shiftItemNoClamp(item, change) ==
    [item EXCEPT !.startLine = movedRange(item, change).start + 1,
                 !.endLine = movedRange(item, change).end + 1]

\* item.location.startLine = Math.max(1, start + 1), and the same for endLine.
shiftItem(item, change) ==
    [item EXCEPT !.startLine = Max(1, movedRange(item, change).start + 1),
                 !.endLine = Max(1, movedRange(item, change).end + 1)]

\* A tracker that follows insertions only and skips every deletion.
applyChange2InsertOnly(items, relFile, change) ==
    IF Delta(change) <= 0 THEN items
    ELSE [i \in Range1(Len(items)) |->
            IF items[i].file = relFile /\ items[i].state = "active"
            THEN shiftItem(items[i], change) ELSE items[i]]

\* Second definition, one iteration of `for (const change of contentChanges)`
\* over the items selected by the filter (file === relFile, state active).
applyChange2(items, relFile, change) ==
    IF Delta(change) = 0 THEN items
    ELSE [i \in Range1(Len(items)) |->
            IF items[i].file = relFile /\ items[i].state = "active"
            THEN shiftItem(items[i], change) ELSE items[i]]

RECURSIVE applyChanges2(_, _, _)
applyChanges2(items, relFile, changes) ==
    IF changes = <<>> THEN items
    ELSE applyChanges2(applyChange2(items, relFile, Head(changes)),
                       relFile, Tail(changes))

\* A handler that sets hasChanges for every change, whatever its delta.
hasChangesAny(changes) == changes # <<>>

\* hasChanges: some change of the call had delta # 0.
hasChanges(changes) ==
    \E k \in Range1(Len(changes)) : Delta(changes[k]) # 0

\* First definition, the body of `for (const lore of loreForFile)` for the
\* index entry k.  st = [items, ranges, threw].  new vscode.Range rejects a
\* negative line (the constructor throws), which ends the handler there:
\* what was assigned before stays assigned.
shiftEntry(st, k, change) ==
    LET e     == st.ranges[k]
        delta == Delta(change)
        c     == change.startLine
        start == IF c < e.start THEN e.start + delta ELSE e.start
        end1  == IF c < e.start THEN e.end + delta
                 ELSE IF c >= e.start /\ c <= e.end THEN e.end + delta
                 ELSE e.end
        end   == IF end1 < start THEN start ELSE end1
    IN  IF start < 0
        THEN [st EXCEPT !.threw = TRUE]
        ELSE [st EXCEPT
                !.ranges[k].start = start,
                !.ranges[k].end = end,
                !.items = IF e.item > 0
                          THEN [@ EXCEPT ![e.item].startLine = start + 1,
                                         ![e.item].endLine = end + 1]
                          ELSE @]

RECURSIVE applyChange1(_, _, _, _)
applyChange1(st, k, filePath, change) ==
    IF st.threw \/ k > Len(st.ranges) THEN st
    ELSE IF st.ranges[k].file # filePath
    THEN applyChange1(st, k + 1, filePath, change)
    ELSE applyChange1(shiftEntry(st, k, change), k + 1, filePath, change)

RECURSIVE applyChanges1(_, _, _)
applyChanges1(st, filePath, changes) ==
    IF st.threw \/ changes = <<>> THEN st
    ELSE IF Delta(Head(changes)) = 0
    THEN applyChanges1(st, filePath, Tail(changes))
    ELSE applyChanges1(applyChange1(st, 1, filePath, Head(changes)),
                       filePath, Tail(changes))

----------------------------------------------------------------------------
(* Inputs of the operations.                                               *)

\* .lore.json: missing, unparseable, the JSON text `null`, or a document
\* with its items.
NoFile == [status |-> "missing", items |-> <<>>]
Corrupt == [status |-> "corrupt", items |-> <<>>]
NullDocument == [status |-> "null", items |-> <<>>]
Document(items) == [status |-> "ok", items |-> items]

NoPayload == [id |-> "", file |-> "", startLine |-> 0, endLine |-> 0,
              summary |-> Undefined]
NoFallback == [file |-> "", startLine |-> 0, endLine |-> 0]

\* What `last` records of an operation: its name and inputs, the id an upsert
\* returned, whether it pushed a record (created), whether it repeats the
\* inputs of the call before it, which was an upsert that pushed a record
\* (again), whether an adjust threw, and whether Math.max(1, ...) raised a line
\* of a record (clamped), how often the operation fired onDidChangeLore
\* (fired) and what a listener found in the store and the index then (seen),
\* the safeWriteJson call a step belongs to, as it was before the step
\* (write), whether an error message was shown (reported), and whether an
\* ensureLoreFile call was answered from the cache (joined), and how many
\* callers of ensureLoreFile the step gave their answer (answered).  For
\* an adjust in a specification that asks for it, the items as they were
\* before the call (was).
NoView == [items |-> <<>>, ranges |-> <<>>]

\* A safeWriteJson call in flight:
\*   caller  "save" (saveLore), "handler" (the change handler), "ensure"
\*   tmp     the Date.now() of the name of its temporary file
\*   text    JSON.stringify(data): the document it writes
\*   pc      the step it awaits: "open" and "write" (the two halves of
\*           fsp.writeFile), "sync", "rename", "dirsync"; "stringify" for a
\*           call whose JSON.stringify threw
\*   fd      where the file that writeFile opened is now: "tmp", "dest" once
\*           another call has renamed it over .lore.json, "gone" once it
\*           has been replaced there, "none" when no file is open
\*   before  .lore.json when the call was made
\*   alone   no other safeWriteJson call has been in flight during this one
NoWrite == [caller |-> "", tmp |-> 0, text |-> NoFile, pc |-> "", fd |-> "none",
            before |-> NoFile, alone |-> FALSE]

Op(name) == [op |-> name, payload |-> NoPayload, fallback |-> NoFallback,
             file |-> "", changes |-> <<>>, id |-> "", created |-> FALSE,
             again |-> FALSE, threw |-> FALSE, clamped |-> FALSE,
             fired |-> 0, seen |-> NoView, write |-> NoWrite,
             reported |-> FALSE, joined |-> FALSE, answered |-> 0,
             was |-> <<>>]

upsertOp(current, payload, fb) ==
    [Op("upsert") EXCEPT
        !.payload = payload, !.fallback = fb,
        !.id = upsertId(current, payload, now),
        !.created = mergeIndex(current, payload) = 0,
        !.again = /\ last.op = "upsert" /\ last.created
                  /\ last.payload = payload /\ last.fallback = fb]

Ids(items) == {items[i].id : i \in Range1(Len(items))}

\* payload.id: absent (""), an id of the store, or an id given from outside.
PayloadIds(items) == {"", "y"} \cup Ids(items)

\* The payloads the edit form posts: only the id, or every field.
Payloads(items) ==
    {[id |-> id, file |-> f[1], startLine |-> f[2], endLine |-> f[3],
      summary |-> f[4]] :
        id \in PayloadIds(items),
        f \in {<<"", 0, 0, Undefined>>, <<"b.ts", 3, 4, "new">>}}

\* relFile, startLine, endLine as the caller captured them.
Fallbacks ==
    {NoFallback, [file |-> "a.ts", startLine |-> 1, endLine |-> 1]}

\* change.range.start.line, change.range.end.line and the "\n" count of
\* change.text, for edits that replace up to MaxEditLines line breaks by text
\* without a line break or with MaxEditLines of them.
MaxEditLines == 2

Changes ==
    {[startLine |-> c, endLine |-> c + old, newLines |-> new] :
        c \in 0..(MaxLine - 1), old \in 0..MaxEditLines, new \in {0, MaxEditLines}}

\* The contentChanges of one event: one change, or one of a few pairs.
ChangeLists ==
    {<<ch>> : ch \in Changes}
    \cup {<<c1, c2>> : c1 \in {ch \in Changes : ch.startLine = 1 /\ ch.newLines = 0},
                       c2 \in {ch \in Changes : ch.startLine = 0 /\ ch.endLine = 0}}

WithinBounds(items) ==
    /\ Len(items) <= MaxItems
    /\ \A i \in Range1(Len(items)) :
          items[i].startLine <= MaxLine /\ items[i].endLine <= MaxLine

----------------------------------------------------------------------------
(* Operations.                                                             *)

\* debounce(this.saveLore, 500): the wait of the timeout, in readings of the
\* model's clock, which counts units of 500 ms.
wait == 1

\* What `mutation` holds after a mutation that left `items` in the store.
NoMutation == [at |-> 0, items |-> <<>>, unsaved |-> FALSE]
Mutated(items) == [at |-> now, items |-> items, unsaved |-> TRUE]

\* What a listener of onDidChangeLore finds when the event is fired.
View(items, ranges) == [items |-> items, ranges |-> ranges]

\* LoreManager.upsertLoreItem once the snapshot is there (both definitions);
\* `reported` says whether the loadLore() it awaited showed an error message.
UpsertBodyAfter(current, payload, fb, reported) ==
    LET items == upsertItems(current, payload, fb.file,
                             fb.startLine, fb.endLine, now)
        id    == upsertId(current, payload, now)
        snap  == [isNull |-> FALSE, items |-> items, lastUpdatedAt |-> now]
    IN  /\ WithinBounds(items)
        /\ loreSnapshot' = snap
        /\ uuidCount' = IF payload.id = "" THEN uuidCount + 1 ELSE uuidCount
        /\ saveTimer' = TRUE
        /\ timerDue' = now + wait
        /\ mutation' = Mutated(items)
        /\ commentRanges' = updateCommentRanges(snap)
        /\ returned' = returned \cup {id}
        /\ last' = [upsertOp(current, payload, fb) EXCEPT
                        !.fired = 1,
                        !.seen = View(items, updateCommentRanges(snap)),
                        !.reported = reported]

UpsertBody(current, payload, fb) == UpsertBodyAfter(current, payload, fb, FALSE)

\* A call in flight: the constructor's initialize(), or an upsertLoreItem
\* that found no snapshot and awaits its own loadLore().
\*   pc "ensure": awaiting ensureLoreFile;  pc "read": awaiting readFile;
\*   pc "resume": the file has been read, the continuation has not run yet.
Call(kind, pc, data, payload, fb) ==
    [kind |-> kind, pc |-> pc, data |-> data, payload |-> payload, fb |-> fb]

InitializeCall == Call("init", "ensure", NoFile, NoPayload, NoFallback)

\* upsertLoreItem(payload, relFile, startLine, endLine) of LoreManager: with a
\* snapshot the body runs at once, without one the call first awaits
\* loadLore().
Upsert(payload, fb) ==
    /\ variant \in {"LM1", "LM2"}
    /\    IF loreSnapshot.isNull
          THEN /\ \A c \in calls : c.kind # "upsert"
               /\ calls' = calls \cup {Call("upsert", "read", NoFile, payload, fb)}
               /\ last' = [Op("upsertCall") EXCEPT !.payload = payload,
                                                   !.fallback = fb]
               /\ UNCHANGED <<loreSnapshot, uuidCount, saveTimer,
                              commentRanges, returned, timeVars>>
          ELSE /\ UpsertBody(loreSnapshot.items, payload, fb)
               /\ UNCHANGED calls
    /\ UNCHANGED <<variant, isHighlightingEnabled, now, disk, fileVars>>

UpsertLoreItem ==
    \E payload \in Payloads(loreSnapshot.items), fb \in Fallbacks :
        Upsert(payload, fb)

\* initialize(): ensureLoreFile has answered; the file is created when it was
\* missing.  loadLore() starts.
InitializeEnsured ==
    /\ \E c \in calls :
          /\ c.kind = "init" /\ c.pc = "ensure"
          /\ calls' = (calls \ {c}) \cup {[c EXCEPT !.pc = "read"]}
    /\ disk' = IF disk.status = "missing" THEN Document(<<>>) ELSE disk
    /\ last' = Op("ensure")
    /\ UNCHANGED <<variant, isHighlightingEnabled, loreSnapshot, commentRanges, saveTimer, now,
                   uuidCount, returned, timeVars, fileVars>>

\* readJson: fsp.readFile delivers what the file holds at that moment.
LoadRead ==
    /\ \E c \in calls :
          /\ c.pc = "read"
          /\ calls' = (calls \ {c}) \cup {[c EXCEPT !.pc = "resume", !.data = disk]}
    /\ last' = Op("read")
    /\ UNCHANGED <<variant, isHighlightingEnabled, loreSnapshot, commentRanges, saveTimer, now,
                   uuidCount, disk, returned, timeVars, fileVars>>

\* readJson throws: fsp.readFile finds no file, or JSON.parse rejects the
\* text.  The text `null` parses.
readFails(data) == data.status \notin {"ok", "null"}

\* The snapshot of the catch block of loadLore(): schemaVersion 1, no items.
emptySnapshot(t) == [isNull |-> FALSE, items |-> <<>>, lastUpdatedAt |-> t]

\* What loadLore() leaves in loreSnapshot: the value readJson parsed (a
\* document, or null), or (catch) a freshly initialized empty snapshot.
loadedSnapshot(data) ==
    IF readFails(data) THEN emptySnapshot(now)
    ELSE [isNull |-> data.status = "null", items |-> data.items,
          lastUpdatedAt |-> 0]

\* What loadLore() leaves in commentRanges: rebuilt after a successful read;
\* after a failed one the old entries stay and refer to items that are no
\* longer in the snapshot.
loadedRanges(data, snap) ==
    IF ~readFails(data) THEN updateCommentRanges(snap)
    ELSE [k \in Range1(Len(commentRanges)) |->
             [commentRanges[k] EXCEPT !.item = 0]]

\* The continuation of loadLore() after readJson, and for an upsertLoreItem
\* call the rest of its body, which throws when the snapshot is still null.
LoadResume ==
    /\ \E c \in calls :
          /\ c.pc = "resume"
          /\ calls' = calls \ {c}
          /\ LET snap == loadedSnapshot(c.data)
             IN  IF c.kind = "upsert" /\ ~snap.isNull
                 THEN UpsertBodyAfter(snap.items, c.payload, c.fb,
                                      readFails(c.data))
                 ELSE /\ loreSnapshot' = snap
                      /\ commentRanges' = loadedRanges(c.data, snap)
                      /\ last' = [Op(IF c.kind = "upsert" THEN "upsertFailed"
                                     ELSE "load") EXCEPT
                                      !.payload = c.payload, !.fallback = c.fb,
                                      !.threw = c.kind = "upsert",
                                      !.reported = readFails(c.data),
                                      !.fired = IF readFails(c.data)
                                                THEN 0 ELSE 1]
                      /\ UNCHANGED <<uuidCount, saveTimer, returned, timeVars>>
    /\ UNCHANGED <<variant, isHighlightingEnabled, now, disk, fileVars>>

\* upsertLoreItem of itemManager.ts on the snapshot its caller holds.
ItemUpsert(payload, fb) ==
    /\ variant = "IM"
    /\    LET items == upsertItems(loreSnapshot.items, payload, fb.file,
                                   fb.startLine, fb.endLine, now)
              id    == upsertId(loreSnapshot.items, payload, now)
          IN  /\ WithinBounds(items)
              /\ loreSnapshot' = [loreSnapshot EXCEPT !.items = items]
              /\ returned' = returned \cup {id}
              /\ last' = upsertOp(loreSnapshot.items, payload, fb)
    /\ UNCHANGED <<variant, isHighlightingEnabled, commentRanges, saveTimer, now, uuidCount, disk, calls,
                   timeVars, fileVars>>

ItemManagerUpsert ==
    \E payload \in Payloads(loreSnapshot.items), fb \in Fallbacks :
        ItemUpsert(payload, fb)

\* Time passes between two operations, up to the reading `limit`.
TickTo(limit) ==
    /\ now < limit
    /\ now' = now + 1
    /\ last' = Op("tick")
    /\ UNCHANGED <<variant, isHighlightingEnabled, loreSnapshot, commentRanges, saveTimer, uuidCount,
                   disk, calls, returned, timeVars, fileVars>>

Tick == TickTo(MaxClock)

\* adjustLoreLocations(event), first definition, for a document and its
\* contentChanges; `keep` says whether `last` keeps the items as they were.
AdjustCall1(file, changes, keep) ==
    /\ variant = "LM1"
    /\    LET filePath == JoinRoot(file)
              forFile  == {k \in Range1(Len(commentRanges)) :
                              commentRanges[k].file = filePath}
              st == applyChanges1([items |-> loreSnapshot.items,
                                   ranges |-> commentRanges, threw |-> FALSE],
                                  filePath, changes)
          IN  /\ forFile # {}
              /\ WithinBounds(st.items)
              /\ \A k \in Range1(Len(st.ranges)) : st.ranges[k].end < MaxLine
              /\ loreSnapshot' = [loreSnapshot EXCEPT !.items = st.items]
              /\ commentRanges' = st.ranges
              /\ saveTimer' = IF hasChanges(changes) /\ ~st.threw
                              THEN TRUE ELSE saveTimer
              /\ timerDue' = IF hasChanges(changes) /\ ~st.threw
                             THEN now + wait ELSE timerDue
              /\ mutation' = IF st.items # loreSnapshot.items
                             THEN Mutated(st.items) ELSE mutation
              /\ last' = [Op("adjust") EXCEPT
                              !.file = file, !.changes = changes,
                              !.was = IF keep THEN loreSnapshot.items ELSE <<>>,
                              !.threw = st.threw]
    /\ UNCHANGED <<variant, isHighlightingEnabled, now, uuidCount, disk, calls, returned, fileVars>>

Adjust1(file, changes) == AdjustCall1(file, changes, FALSE)

AdjustLoreLocations1 ==
    \E file \in Files, changes \in ChangeLists : Adjust1(file, changes)

\* adjustLoreLocations(document, contentChanges), second definition.
AdjustCall2(file, changes, keep) ==
    /\ variant = "LM2"
    /\ ~loreSnapshot.isNull
    /\    LET relFile == RelativeToRoot(JoinRoot(file))
              items   == {i \in Range1(Len(loreSnapshot.items)) :
                             /\ loreSnapshot.items[i].file = relFile
                             /\ loreSnapshot.items[i].state = "active"}
              new  == applyChanges2(loreSnapshot.items, relFile, changes)
              snap == [loreSnapshot EXCEPT !.items = new, !.lastUpdatedAt = now]
          IN  /\ items # {}
              /\ WithinBounds(new)
              /\ IF hasChanges(changes)
                 THEN /\ loreSnapshot' = snap
                      /\ saveTimer' = TRUE
                      /\ timerDue' = now + wait
                      /\ mutation' = IF new # loreSnapshot.items
                                     THEN Mutated(new) ELSE mutation
                      /\ commentRanges' = updateCommentRanges(snap)
                 ELSE UNCHANGED <<loreSnapshot, saveTimer, commentRanges,
                                  timeVars>>
              /\ last' = [Op("adjust") EXCEPT
                              !.file = file, !.changes = changes,
                              !.was = IF keep THEN loreSnapshot.items ELSE <<>>,
                              !.fired = IF hasChanges(changes) THEN 1 ELSE 0,
                              !.seen = IF hasChanges(changes)
                                       THEN View(new, updateCommentRanges(snap))
                                       ELSE NoView,
                              !.clamped =
                                  /\ Len(changes) = 1 /\ hasChanges(changes)
                                  /\ \E i \in items :
                                        movedRange(loreSnapshot.items[i],
                                                   changes[1]).start < 0]
    /\ UNCHANGED <<variant, isHighlightingEnabled, now, uuidCount, disk, calls, returned, fileVars>>

Adjust2(file, changes) == AdjustCall2(file, changes, FALSE)

AdjustLoreLocations2 ==
    \E file \in Files, changes \in ChangeLists : Adjust2(file, changes)

\* What toggleHighlights, enableHighlights and clearDecorations leave alone.
HighlightFrame ==
    UNCHANGED <<variant, loreSnapshot, saveTimer, now, uuidCount, disk, calls,
                returned, timeVars, fileVars>>

\* toggleHighlights() of the first definition.
ToggleHighlights ==
    /\ variant = "LM1"
    /\ isHighlightingEnabled' = ~isHighlightingEnabled
    /\ last' = [Op("toggle") EXCEPT !.fired = 1]
    /\ UNCHANGED commentRanges
    /\ HighlightFrame

\* enableHighlights() of the first definition.
EnableHighlights ==
    /\ variant = "LM1"
    /\ isHighlightingEnabled' = TRUE
    /\ last' = [Op("enable") EXCEPT !.fired = 1]
    /\ UNCHANGED commentRanges
    /\ HighlightFrame

\* clearDecorations() of the first definition: the flag is reset and
\* commentRanges.clear() empties the index.
ClearDecorations ==
    /\ variant = "LM1"
    /\ isHighlightingEnabled' = FALSE
    /\ commentRanges' = <<>>
    /\ last' = [Op("clear") EXCEPT !.fired = 1]
    /\ HighlightFrame

----------------------------------------------------------------------------
(* The durable store writer (safeWriteJson) and the debounced save.        *)

\* The safeWriteJson calls that can be in flight at once.
MaxWrites == 2

\* A file that fsp.writeFile has opened (O_TRUNC) and not written yet.
Partial == [status |-> "partial", items |-> <<>>]

\* JSON.stringify(data, null, 2) of a snapshot, as readJson gives it back.
stringify(snapshot) == Document(snapshot.items)

\* A writer that renames the temporary file before it has synced it.
nextStepRenameFirst(pc) ==
    CASE pc = "open"   -> "write"
      [] pc = "write"  -> "rename"
      [] pc = "rename" -> "sync"
      [] pc = "sync"   -> "dirsync"

\* The order in which safeWriteJson awaits its steps.
nextStep(pc) ==
    CASE pc = "open"   -> "write"
      [] pc = "write"  -> "sync"
      [] pc = "sync"   -> "rename"
      [] pc = "rename" -> "dirsync"

RemoveAt(seq, i) == SubSeq(seq, 1, i - 1) \o SubSeq(seq, i + 1, Len(seq))

\* The temporary files: a set of [name, content], one per name.
TmpExists(name) == \E f \in tmpFiles : f.name = name
TmpContent(name) == (CHOOSE f \in tmpFiles : f.name = name).content
PutTmp(name, content) ==
    {f \in tmpFiles : f.name # name} \cup {[name |-> name, content |-> content]}

\* safeWriteJson(filePath, data) up to its first await: the name of the
\* temporary file is built from Date.now() and data is serialized.
WriteCall(caller, data) ==
    [caller |-> caller, tmp |-> now, text |-> data, pc |-> "open",
     fd |-> "none", before |-> disk, alone |-> writes = <<>>]

\* The call joins the calls in flight, unless JSON.stringify threw (~ok).
StartWrite(caller, data, ok) ==
    /\ Len(writes) < MaxWrites
    /\ writes' = IF ok
                 THEN Append([j \in Range1(Len(writes)) |->
                                 [writes[j] EXCEPT !.alone = FALSE]],
                             WriteCall(caller, data))
                 ELSE writes
    /\ passed' = passed \cup {data}

\* The call that a caller action describes in `last`.
StartedWrite(caller, data, ok) ==
    IF ok THEN WriteCall(caller, data)
    ELSE [WriteCall(caller, data) EXCEPT !.pc = "stringify"]

\* A catch block that falls back to an empty store, as the one of loadLore
\* does.
saveLoreCatchReset(snapshot) ==
    [snapshot |-> [snapshot EXCEPT !.items = <<>>], reported |-> TRUE,
     threw |-> FALSE]

\* The catch block of saveLore: the error is shown and logged, nothing is
\* thrown on, and loreSnapshot is not assigned.
saveLoreCatch(snapshot) ==
    [snapshot |-> snapshot, reported |-> TRUE, threw |-> FALSE]

\* `later` of debounce() runs: the timeout is over, saveLore serializes the
\* snapshot and calls safeWriteJson.
SaveLater ==
    /\ variant \in {"LM1", "LM2"}
    /\ saveTimer /\ now >= timerDue
    /\ ~loreSnapshot.isNull
    /\ \E ok \in BOOLEAN :
          LET caught == saveLoreCatch(loreSnapshot)
          IN  /\ StartWrite("save", stringify(loreSnapshot), ok)
              /\ loreSnapshot' = IF ok THEN loreSnapshot ELSE caught.snapshot
              /\ last' = [Op(IF ok THEN "save" ELSE "saveFailed") EXCEPT
                              !.write = StartedWrite("save", stringify(loreSnapshot), ok),
                              !.reported = ~ok /\ caught.reported,
                              !.threw = ~ok /\ caught.threw]
    /\ saveTimer' = FALSE
    /\ mutation' = [mutation EXCEPT !.unsaved = FALSE]
    /\ UNCHANGED <<variant, isHighlightingEnabled, commentRanges, now, uuidCount, disk,
                   calls, returned, timerDue, tmpFiles, ensureCache, ensures,
                   waiters>>

\* The callers of ensureLoreFile that can hold one pending promise.
MaxCallers == 2

\* `loreSnapshot = json` of the command handlers, once the safeWriteJson call
\* w they awaited has resolved: json is what the call serialized, stamped
\* with the time of the save.
panelSnapshot(w) ==
    [isNull |-> FALSE, items |-> w.text.items, lastUpdatedAt |-> w.tmp]

\* An ensureLoreFile whose cache keeps the promise that was rejected.
ensureSettledKept(ok) == IF ok THEN "resolved" ELSE "rejected"

\* The entry of ensureCache once the body of ensureLoreFile has settled: the
\* resolved promise stays, promise.catch deletes the entry of a rejected one
\* before the rejection reaches the callers.
ensureSettled(ok) == IF ok THEN "resolved" ELSE "none"

\* What the caller of a safeWriteJson call does when the call settles:
\* saveLore logs or shows an error, the change handler logs, a command
\* handler takes its json as the snapshot, and the body of ensureLoreFile
\* resolves or rejects, which keeps or deletes the cache entry.
Settled(w, ok) ==
    /\ ensures' = IF w.caller = "ensure"
                  THEN RemoveAt(ensures,
                                CHOOSE k \in Range1(Len(ensures)) :
                                    /\ ensures[k].pc = "write"
                                    /\ \A j \in 1..(k - 1) : ensures[j].pc # "write")
                  ELSE ensures
    /\ ensureCache' = IF w.caller = "ensure" THEN ensureSettled(ok)
                      ELSE ensureCache
    /\ waiters' = IF w.caller = "ensure" THEN 0 ELSE waiters
    /\ LET caught == saveLoreCatch(loreSnapshot)
           failed == ~ok /\ w.caller = "save"
       IN  /\ loreSnapshot' = IF failed THEN caught.snapshot
                            ELSE IF ok /\ w.caller = "panel"
                            THEN panelSnapshot(w)
                            ELSE loreSnapshot
           /\ last' = [Op(IF ok THEN (IF w.caller = "save" THEN "saved" ELSE "written")
                          ELSE (IF w.caller = "save" THEN "saveFailed" ELSE "writeFailed"))
                           EXCEPT !.write = w,
                                  !.answered = IF w.caller = "ensure"
                                               THEN waiters ELSE 0,
                                  !.reported = failed /\ caught.reported,
                                  !.threw = failed /\ caught.threw]

\* fsp.writeFile(tmp, text), first half: the file is created or truncated.
WriteOpen(i) ==
    LET w == writes[i]
    IN  /\ w.pc = "open"
        /\ tmpFiles' = PutTmp(w.tmp, Partial)
        /\ writes' = [writes EXCEPT ![i] = [w EXCEPT !.pc = nextStep(w.pc), !.fd = "tmp"]]
        /\ last' = [Op("open") EXCEPT !.write = w]
        /\ UNCHANGED <<loreSnapshot, disk, passed, ensureCache, ensures, waiters>>

\* A writer that serializes the snapshot when it writes the temporary file,
\* not when it is called.
WriteDataLive(i) ==
    LET w == writes[i]
        text == IF w.caller = "save" THEN stringify(loreSnapshot) ELSE w.text
    IN  /\ w.pc = "write"
        /\ tmpFiles' = IF w.fd = "tmp" THEN PutTmp(w.tmp, text) ELSE tmpFiles
        /\ disk' = IF w.fd = "dest" THEN text ELSE disk
        /\ writes' = [writes EXCEPT ![i] = [w EXCEPT !.pc = nextStep(w.pc), !.fd = "none"]]
        /\ last' = [Op("data") EXCEPT !.write = w]
        /\ UNCHANGED <<loreSnapshot, passed, ensureCache, ensures, waiters>>

\* fsp.writeFile(tmp, text), second half: the text goes to the file that was
\* opened, wherever that file is by now.
WriteData(i) ==
    LET w == writes[i]
    IN  /\ w.pc = "write"
        /\ tmpFiles' = IF w.fd = "tmp" THEN PutTmp(w.tmp, w.text) ELSE tmpFiles
        /\ disk' = IF w.fd = "dest" THEN w.text ELSE disk
        /\ writes' = [writes EXCEPT ![i] = [w EXCEPT !.pc = nextStep(w.pc), !.fd = "none"]]
        /\ last' = [Op("data") EXCEPT !.write = w]
        /\ UNCHANGED <<loreSnapshot, passed, ensureCache, ensures, waiters>>

\* fsp.open(tmp, 'r'), fd.sync(), fd.close().
WriteSync(i) ==
    LET w == writes[i]
    IN  /\ w.pc = "sync"
        /\ TmpExists(w.tmp)
        /\ writes' = [writes EXCEPT ![i] = [w EXCEPT !.pc = nextStep(w.pc)]]
        /\ last' = [Op("sync") EXCEPT !.write = w]
        /\ UNCHANGED <<loreSnapshot, disk, tmpFiles, passed, ensureCache, ensures,
                       waiters>>

\* fsp.rename(tmp, filePath): the temporary file becomes .lore.json.  A call
\* that still has this file open now writes to .lore.json; a call that had
\* the replaced .lore.json open writes to a file without a name.
WriteRename(i) ==
    LET w == writes[i]
        moved(v) == IF v.fd = "tmp" /\ v.tmp = w.tmp THEN "dest"
                    ELSE IF v.fd = "dest" THEN "gone" ELSE v.fd
    IN  /\ w.pc = "rename"
        /\ TmpExists(w.tmp)
        /\ disk' = TmpContent(w.tmp)
        /\ tmpFiles' = {f \in tmpFiles : f.name # w.tmp}
        /\ writes' = [j \in Range1(Len(writes)) |->
                         IF j = i THEN [w EXCEPT !.pc = nextStep(w.pc)]
                         ELSE [writes[j] EXCEPT !.fd = moved(writes[j])]]
        /\ last' = [Op("rename") EXCEPT !.write = w]
        /\ UNCHANGED <<loreSnapshot, passed, ensureCache, ensures, waiters>>

\* The best-effort sync of the directory is over, whatever it gave:
\* safeWriteJson resolves.
WriteDone(i) ==
    LET w == writes[i]
    IN  /\ w.pc = "dirsync"
        /\ writes' = RemoveAt(writes, i)
        /\ Settled(w, TRUE)
        /\ UNCHANGED <<disk, tmpFiles, passed>>

\* One of the awaited steps before the directory sync rejects (an I/O
\* error, or the temporary file is no longer there): safeWriteJson rejects
\* and leaves the files as they are.
WriteFails(i) ==
    LET w == writes[i]
    IN  /\ w.pc \in {"open", "write", "sync", "rename"}
        /\ writes' = RemoveAt(writes, i)
        /\ Settled(w, FALSE)
        /\ UNCHANGED <<disk, tmpFiles, passed>>

\* A step of a safeWriteJson call in flight.
WriteFrame == UNCHANGED <<variant, isHighlightingEnabled, commentRanges, saveTimer, now, uuidCount,
                          calls, returned, timeVars>>

WriteOpens == \E i \in Range1(Len(writes)) : WriteOpen(i) /\ WriteFrame
WritesData == \E i \in Range1(Len(writes)) : WriteData(i) /\ WriteFrame
WriteSyncs == \E i \in Range1(Len(writes)) : WriteSync(i) /\ WriteFrame
WriteRenames == \E i \in Range1(Len(writes)) : WriteRename(i) /\ WriteFrame
WriteIsDone == \E i \in Range1(Len(writes)) : WriteDone(i) /\ WriteFrame
WriteRejects == \E i \in Range1(Len(writes)) : WriteFails(i) /\ WriteFrame

----------------------------------------------------------------------------
(* First-use initialization (ensureLoreFile) and the change handler that   *)
(* saves without a debounce.                                               *)

\* The document ensureLoreFile creates: schemaVersion 1, no items.
initial == Document(<<>>)

\* An ensureLoreFile that does not look into ensureCache.
ensureStartsAlways(cache) == TRUE

\* ensureLoreFile(root) starts a check only when ensureCache has no entry for
\* the root; otherwise it returns the cached promise.
ensureStarts(cache) == cache = "none"

\* An ensureLoreFile that creates the file without checking for it.
existsNever(file) == FALSE

\* fsp.access(p) resolves.
exists(file) == file.status # "missing"

\* A call of ensureLoreFile(root) by the activation, a command or the manager.
EnsureCall ==
    /\ IF ensureStarts(ensureCache)
       THEN /\ Len(ensures) < MaxWrites
            /\ waiters < MaxCallers
            /\ ensures' = Append(ensures, [pc |-> "access"])
            /\ ensureCache' = "pending"
            /\ waiters' = waiters + 1
            /\ last' = Op("ensureCall")
       ELSE /\ ensureCache = "pending" => waiters < MaxCallers
            /\ waiters' = IF ensureCache = "pending" THEN waiters + 1
                          ELSE waiters
            /\ UNCHANGED <<ensures, ensureCache>>
            /\ last' = [Op("ensureCall") EXCEPT
                            !.joined = TRUE,
                            !.answered = IF ensureCache = "pending" THEN 0 ELSE 1]
    /\ UNCHANGED <<variant, isHighlightingEnabled, loreSnapshot, commentRanges, saveTimer, now,
                   uuidCount, disk, calls, returned, timeVars, writes,
                   tmpFiles, passed>>

\* fsp.access has answered a body of ensureLoreFile: the file is there and
\* the promise resolves, or it is missing and safeWriteJson is called with
\* the initial document.
EnsureAccess(k) ==
    /\ ensures[k].pc = "access"
    /\ IF exists(disk)
       THEN /\ ensures' = RemoveAt(ensures, k)
            /\ ensureCache' = ensureSettled(TRUE)
            /\ waiters' = 0
            /\ last' = [Op("access") EXCEPT !.answered = waiters]
            /\ UNCHANGED <<writes, passed>>
       ELSE \E ok \in BOOLEAN :
            /\ StartWrite("ensure", initial, ok)
            /\ ensures' = IF ok THEN [ensures EXCEPT ![k].pc = "write"]
                          ELSE RemoveAt(ensures, k)
            /\ ensureCache' = IF ok THEN ensureCache ELSE ensureSettled(FALSE)
            /\ waiters' = IF ok THEN waiters ELSE 0
            /\ last' = [Op("access") EXCEPT
                            !.write = StartedWrite("ensure", initial, ok),
                            !.answered = IF ok THEN 0 ELSE waiters]
    /\ UNCHANGED <<variant, isHighlightingEnabled, loreSnapshot, commentRanges, saveTimer, now,
                   uuidCount, disk, calls, returned, timeVars, tmpFiles>>

EnsureAccessed == \E k \in Range1(Len(ensures)) : EnsureAccess(k)

\* The entries the change handler puts into commentRanges for the file: one
\* for each active record of the file, from item i on.
RECURSIVE trackedFrom(_, _, _)
trackedFrom(items, relFile, i) ==
    IF i > Len(items) THEN <<>>
    ELSE LET it == items[i]
             r  == RangeOf(it.startLine - 1, it.endLine - 1)
         IN  IF it.file = relFile /\ it.state = "active"
             THEN <<[file |-> JoinRoot(relFile), start |-> r.start,
                     end |-> r.end, item |-> i]>>
                  \o trackedFrom(items, relFile, i + 1)
             ELSE trackedFrom(items, relFile, i + 1)

\* commentRanges.set(filePath, tracked).
setTracked(ranges, items, relFile) ==
    SelectSeq(ranges, LAMBDA e : e.file # JoinRoot(relFile))
    \o trackedFrom(items, relFile, 1)

\* The onDidChangeTextDocument handler that holds the snapshot itself: it
\* adjusts the active records of the file and, when a change had a line
\* delta, calls safeWriteJson at once.
HandlerChange(file, changes) ==
    /\ variant = "IM"
    /\ ~loreSnapshot.isNull
    /\    LET relFile == RelativeToRoot(JoinRoot(file))
              items   == {i \in Range1(Len(loreSnapshot.items)) :
                             /\ loreSnapshot.items[i].file = relFile
                             /\ loreSnapshot.items[i].state = "active"}
              new  == applyChanges2(loreSnapshot.items, relFile, changes)
              snap == [loreSnapshot EXCEPT !.items = new, !.lastUpdatedAt = now]
          IN  /\ items # {}
              /\ WithinBounds(new)
              /\ IF hasChanges(changes)
                 THEN \E ok \in BOOLEAN :
                      /\ loreSnapshot' = snap
                      /\ commentRanges' = setTracked(commentRanges, new, relFile)
                      /\ StartWrite("handler", stringify(snap), ok)
                      /\ last' = [Op("change") EXCEPT
                                      !.file = file, !.changes = changes,
                                      !.write = StartedWrite("handler",
                                                             stringify(snap), ok)]
                 ELSE /\ UNCHANGED <<loreSnapshot, commentRanges, writes, passed>>
                      /\ last' = [Op("change") EXCEPT
                                      !.file = file, !.changes = changes]
    /\ UNCHANGED <<variant, isHighlightingEnabled, saveTimer, now, uuidCount, disk, calls, returned,
                   timeVars, tmpFiles, ensureCache, ensures, waiters>>

\* What the webview of an edit panel posts on save: the id, file and lines
\* the panel was opened with, and the text of the form.
PanelPayload(item, summary) ==
    [id |-> item.id, file |-> item.file, startLine |-> item.startLine,
     endLine |-> item.endLine, summary |-> summary]

\* The frame of the command handlers: they touch the file, their own json
\* and, once the write has resolved, the snapshot.
PanelFrame ==
    UNCHANGED <<variant, isHighlightingEnabled, loreSnapshot, commentRanges,
                saveTimer, now, uuidCount, disk, timeVars,
                tmpFiles, ensureCache, ensures, waiters>>

\* lore.editComment: readJson gives the handler its json, the record is found
\* in it and the panel opens.  One panel is open at a time, and a record is
\* edited once.
EditOpen(id) ==
    /\ variant = "IM"
    /\ disk.status = "ok"
    /\ IndexOfId(disk.items, id) > 0
    /\ \A c \in calls : c.kind # "edit"
    /\ id \notin returned
    /\ LET item == disk.items[IndexOfId(disk.items, id)]
       IN  calls' = calls \cup
               {Call("edit", "open", disk, PanelPayload(item, Undefined),
                     [file |-> item.file, startLine |-> item.startLine,
                      endLine |-> item.endLine])}
    /\ last' = [Op("editOpen") EXCEPT !.id = id]
    /\ UNCHANGED <<writes, passed, returned>>
    /\ PanelFrame

EditOpens == \E id \in Ids(disk.items) : EditOpen(id)

\* The save message of the edit panel c: upsertLoreItem on the json the
\* panel was opened with, then safeWriteJson of that json.  The panel is
\* taken as closed once the message has been handled.
EditSave(c, summary) ==
    /\ variant = "IM"
    /\ c \in calls /\ c.kind = "edit"
    /\ LET payload == [c.payload EXCEPT !.summary = summary]
           items   == upsertItems(c.data.items, payload, c.fb.file,
                                  c.fb.startLine, c.fb.endLine, now)
       IN  \E ok \in BOOLEAN :
             /\ StartWrite("panel", Document(items), ok)
             /\ last' = [Op("editSave") EXCEPT
                             !.payload = payload, !.fallback = c.fb,
                             !.id = upsertId(c.data.items, payload, now),
                             !.reported = ~ok,
                             !.write = StartedWrite("panel", Document(items), ok)]
    /\ calls' = calls \ {c}
    /\ returned' = returned \cup {c.payload.id}
    /\ PanelFrame

EditSaves == \E c \in calls : EditSave(c, "new")

\* The save message of the create panel: readJson at that moment,
\* upsertLoreItem of a payload without id, then safeWriteJson.
CreateSave(fb) ==
    /\ variant = "IM"
    /\ disk.status = "ok"
    /\ LET payload == [NoPayload EXCEPT !.file = fb.file,
                                        !.startLine = fb.startLine,
                                        !.endLine = fb.endLine,
                                        !.summary = "new"]
           items   == upsertItems(disk.items, payload, fb.file,
                                  fb.startLine, fb.endLine, now)
       IN  /\ WithinBounds(items)
           /\ \E ok \in BOOLEAN :
                 /\ StartWrite("panel", Document(items), ok)
                 /\ last' = [Op("createSave") EXCEPT
                                 !.payload = payload, !.fallback = fb,
                                 !.id = upsertId(disk.items, payload, now),
                                 !.created = TRUE,
                                 !.reported = ~ok,
                                 !.write = StartedWrite("panel", Document(items), ok)]
    /\ UNCHANGED <<calls, returned>>
    /\ PanelFrame

----------------------------------------------------------------------------
(* Specifications.                                                         *)

Snapshot(items) == [isNull |-> FALSE, items |-> items, lastUpdatedAt |-> 0]

\* No timeout is pending and no mutation has happened.
NoTimer == timerDue = 0 /\ mutation = NoMutation

\* No safeWriteJson and no ensureLoreFile call is in flight, the cache of
\* ensureLoreFile is empty and there are no temporary files.
NoFileCalls ==
    /\ writes = <<>>
    /\ tmpFiles = {}
    /\ passed = {disk}
    /\ ensureCache = "none"
    /\ ensures = <<>>
    /\ waiters = 0

\* The stores the upsert specification starts from: empty, one record, or two
\* records, the second one archived and carrying a generated id.  The two
\* definitions of LoreManager have the same upsertLoreItem (the first also
\* copies a categories field, which no operation here reads); the first one
\* stands for both.
InitUpsert ==
    /\ variant \in {"LM1", "IM"}
    /\ \E n \in 0..2 :
          LET a == Item("x", "active", "a.ts", 2, 3, "old", 0, 0)
              b == Item(IF variant = "IM" THEN DateId(0) ELSE Uuid(1),
                        "archived", "b.ts", 1, 1, "", 0, 0)
          IN  /\ loreSnapshot = Snapshot(SubSeq(<<a, b>>, 1, n))
              /\ uuidCount = IF variant # "IM" /\ n = 2 THEN 1 ELSE 0
    /\ commentRanges = IF variant = "IM" THEN <<>>
                       ELSE updateCommentRanges(loreSnapshot)
    /\ saveTimer = FALSE
    /\ now = 0
    /\ disk = NoFile
    /\ calls = {}
    /\ returned = {}
    /\ last = Op("init")
    /\ NoTimer /\ NoFileCalls
    /\ isHighlightingEnabled = FALSE

NextUpsert == UpsertLoreItem \/ ItemManagerUpsert \/ Tick

SpecUpsert == InitUpsert /\ [][NextUpsert]_vars

\* The payloads of the payload specification: without an id or for the
\* record "x"; with no line, one of the two lines or both; with no summary,
\* an empty one or a new one.
FieldPayloads ==
    {[id |-> id, file |-> "", startLine |-> s, endLine |-> e, summary |-> t] :
        id \in {"", "x"}, s \in {0, MaxLine - 1}, e \in {0, MaxLine - 1},
        t \in {Undefined, "", "new"}}

\* The locations its callers captured: one line, or several.
FieldFallbacks ==
    {[file |-> "a.ts", startLine |-> 1, endLine |-> 1],
     [file |-> "a.ts", startLine |-> 2, endLine |-> MaxLine - 1]}

NextPayload ==
    \/ \E payload \in FieldPayloads, fb \in FieldFallbacks : Upsert(payload, fb)
    \/ \E payload \in FieldPayloads, fb \in FieldFallbacks : ItemUpsert(payload, fb)
    \/ Tick

SpecPayload == InitUpsert /\ [][NextPayload]_vars

\* The line ranges a record can start with.
InitRanges == {r \in (1..(MaxLine - 2)) \X (1..(MaxLine - 2)) : r[1] <= r[2]}

\* The stores the tracker specification starts from: an active record of a.ts
\* with any range, followed by a second record: active in the same file (one
\* line or several), archived in the same file, or active in another file.
InitTracker ==
    /\ variant \in {"LM1", "LM2"}
    /\ \E r \in InitRanges,
          b \in {Item("b1", "active", "a.ts", 3, 3, "", 0, 0),
                 Item("b2", "active", "a.ts", 2, 4, "", 0, 0),
                 Item("b3", "archived", "a.ts", 2, 3, "", 0, 0),
                 Item("b4", "active", "b.ts", 1, 2, "", 0, 0)} :
          loreSnapshot = Snapshot(<<Item("x", "active", "a.ts", r[1], r[2], "", 0, 0), b>>)
    /\ commentRanges = updateCommentRanges(loreSnapshot)
    /\ saveTimer = FALSE
    /\ now = 0
    /\ uuidCount = 0
    /\ disk = NoFile
    /\ calls = {}
    /\ returned = {}
    /\ last = Op("init")
    /\ NoTimer /\ NoFileCalls
    /\ isHighlightingEnabled = FALSE

NextTracker == AdjustLoreLocations1 \/ AdjustLoreLocations2

SpecTracker == InitTracker /\ [][NextTracker]_vars

\* The events of two edits: a deletion anywhere, then an edit at the top of
\* the document.
EditPairs ==
    {<<c1, c2>> : c1 \in {ch \in Changes : ch.newLines = 0 /\ Delta(ch) # 0},
                  c2 \in {ch \in Changes : ch.startLine = 0 /\ Delta(ch) # 0}}

NextPairs ==
    \/ \E file \in Files, changes \in EditPairs : Adjust1(file, changes)
    \/ \E file \in Files, changes \in EditPairs : Adjust2(file, changes)

SpecPairs == InitTracker /\ [][NextPairs]_vars

\* The insertion of k lines at line L (0-based), and the deletion of the
\* same lines: the range L..L+k replaced by text without a line break.
Insertion(L, k) == [startLine |-> L, endLine |-> L, newLines |-> k]
Deletion(L, k) == [startLine |-> L, endLine |-> L + k, newLines |-> 0]

\* The events of the undo specification: one insertion or one deletion of
\* up to MaxEditLines lines.
UndoChanges ==
    {<<Insertion(L, k)>> : L \in 0..(MaxLine - 1), k \in 1..MaxEditLines}
    \cup {<<Deletion(L, k)>> : L \in 0..(MaxLine - 1), k \in 1..MaxEditLines}

NextUndo ==
    \/ \E file \in Files, changes \in UndoChanges : AdjustCall1(file, changes, TRUE)
    \/ \E file \in Files, changes \in UndoChanges : AdjustCall2(file, changes, TRUE)

SpecUndo == InitTracker /\ [][NextUndo]_vars

\* The manager right after its constructor: no snapshot yet, initialize() in
\* flight, and .lore.json missing, unparseable, holding the text `null`,
\* holding one record, or holding an archived record and an active one.
InitLoad ==
    /\ variant \in {"LM1", "LM2"}
    /\ loreSnapshot = [isNull |-> TRUE, items |-> <<>>, lastUpdatedAt |-> 0]
    /\ commentRanges = <<>>
    /\ saveTimer = FALSE
    /\ now = 0
    /\ uuidCount = 0
    /\ disk \in {NoFile, Corrupt, NullDocument,
                 Document(<<Item("x", "active", "a.ts", 2, 3, "old", 0, 0)>>),
                 Document(<<Item("z", "archived", "a.ts", 1, 1, "", 0, 0),
                            Item("x", "active", "a.ts", 2, 3, "old", 0, 0)>>)}
    /\ calls = {InitializeCall}
    /\ returned = {}
    /\ last = Op("init")
    /\ NoTimer /\ NoFileCalls
    /\ isHighlightingEnabled = FALSE

\* The document changes of the load specification: lines inserted or deleted
\* at the top of a.ts.
LoadChanges ==
    {<<ch>> : ch \in {c \in Changes : c.startLine = 0 /\ Delta(c) # 0
                                       /\ (c.endLine = 0 \/ c.newLines = 0)}}

\* The upserts of the load specification: a new record, or an edit of "x",
\* with the location the caller captured.
LoadPayloads == {[NoPayload EXCEPT !.id = id] : id \in {"", "x"}}

NextLoad ==
    \/ InitializeEnsured
    \/ LoadRead
    \/ LoadResume
    \/ \E payload \in LoadPayloads, fb \in Fallbacks \ {NoFallback} :
          Upsert(payload, fb)
    \/ \E changes \in LoadChanges : Adjust1("a.ts", changes)
    \/ \E changes \in LoadChanges : Adjust2("a.ts", changes)

SpecLoad == InitLoad /\ [][NextLoad]_vars

\* The manager from its constructor on, with the highlight commands.
NextIndex ==
    \/ InitializeEnsured
    \/ LoadRead
    \/ LoadResume
    \/ \E payload \in LoadPayloads, fb \in Fallbacks \ {NoFallback} :
          Upsert(payload, fb)
    \/ \E changes \in LoadChanges : Adjust1("a.ts", changes)
    \/ \E changes \in LoadChanges : Adjust2("a.ts", changes)
    \/ ToggleHighlights
    \/ EnableHighlights
    \/ ClearDecorations

SpecIndex == InitLoad /\ [][NextIndex]_vars

\* The manager right after its constructor when .lore.json is unparseable,
\* with the upserts and adjusts that follow and the saves they schedule.
InitCorrupt == InitLoad /\ disk = Corrupt

NextCorrupt ==
    \/ InitializeEnsured
    \/ LoadRead
    \/ LoadResume
    \/ \E fb \in Fallbacks \ {NoFallback} : Upsert(NoPayload, fb)
    \/ \E changes \in LoadChanges : Adjust1("a.ts", changes)
    \/ \E changes \in LoadChanges : Adjust2("a.ts", changes)
    \/ Tick
    \/ SaveLater
    \/ WriteOpens
    \/ WritesData
    \/ WriteSyncs
    \/ WriteRenames
    \/ WriteIsDone
    \/ WriteRejects

SpecCorrupt == InitCorrupt /\ [][NextCorrupt]_vars

\* The extension whose handlers hold the snapshot themselves, after its
\* activation: .lore.json is missing and nothing is loaded, or it holds one
\* record and the snapshot has been read.  The handlers await ensureLoreFile
\* before they read or write the file.
InitFiles ==
    /\ variant = "IM"
    /\    LET x == Item("x", "active", "a.ts", 2, 2, "", 0, 0)
          IN  \/ disk = NoFile
                 /\ loreSnapshot = [isNull |-> TRUE, items |-> <<>>,
                                    lastUpdatedAt |-> 0]
              \/ disk = Document(<<x>>) /\ loreSnapshot = Snapshot(<<x>>)
    /\ commentRanges = updateCommentRanges(loreSnapshot)
    /\ saveTimer = FALSE
    /\ now = 0
    /\ uuidCount = 0
    /\ calls = {}
    /\ returned = {}
    /\ last = Op("init")
    /\ NoTimer /\ NoFileCalls
    /\ isHighlightingEnabled = FALSE

\* The events of the files specification: the first line of the document is
\* deleted.
FileChanges ==
    {<<ch>> : ch \in {c \in Changes : /\ c.startLine = 0 /\ c.endLine = 1
                                      /\ c.newLines = 0}}

NextFiles ==
    \/ \E changes \in FileChanges : HandlerChange("a.ts", changes)
    \/ Tick
    \/ WriteOpens
    \/ WritesData
    \/ WriteSyncs
    \/ WriteRenames
    \/ WriteIsDone
    \/ WriteRejects

SpecFiles == InitFiles /\ [][NextFiles]_vars

\* The extension whose handlers hold the snapshot themselves, with one or
\* two records of a.ts in .lore.json and in the snapshot.
InitPanel ==
    /\ variant = "IM"
    /\ LET x == Item("x", "active", "a.ts", 2, 2, "old", 0, 0)
           z == Item("z", "active", "a.ts", 3, 4, "", 0, 0)
       IN  disk \in {Document(<<x>>), Document(<<x, z>>)}
    /\ loreSnapshot = Snapshot(disk.items)
    /\ commentRanges = updateCommentRanges(loreSnapshot)
    /\ saveTimer = FALSE
    /\ now = 0
    /\ uuidCount = 0
    /\ calls = {}
    /\ returned = {}
    /\ last = Op("init")
    /\ NoTimer /\ NoFileCalls
    /\ isHighlightingEnabled = FALSE

\* The edit panel, the create panel and the change handler, each writing
\* .lore.json on its own, with one safeWriteJson call in flight at a time
\* and within one tick of the clock.
NextPanel ==
    \/ EditOpens
    \/ writes = <<>> /\ EditSaves
    \/ writes = <<>> /\ \E fb \in Fallbacks \ {NoFallback} : CreateSave(fb)
    \/ writes = <<>> /\ \E changes \in FileChanges : HandlerChange("a.ts", changes)
    \/ WriteOpens
    \/ WritesData
    \/ WriteSyncs
    \/ WriteRenames
    \/ WriteIsDone
    \/ WriteRejects

SpecPanel == InitPanel /\ [][NextPanel]_vars

\* The calls of ensureLoreFile by the activation and the commands, on a
\* missing and on an existing file.
NextEnsure ==
    \/ EnsureCall
    \/ EnsureAccessed
    \/ Tick
    \/ WriteOpens
    \/ WritesData
    \/ WriteSyncs
    \/ WriteRenames
    \/ WriteIsDone
    \/ WriteRejects

SpecEnsure == InitFiles /\ [][NextEnsure]_vars

\* The manager with its snapshot loaded and saved: one record of a.ts, or two
\* in either order.
InitSave ==
    /\ variant \in {"LM1", "LM2"}
    /\ LET x == Item("x", "active", "a.ts", 2, 2, "old", 0, 0)
           z == Item("z", "active", "a.ts", 3, 4, "", 0, 0)
       IN  loreSnapshot \in {Snapshot(<<x>>), Snapshot(<<x, z>>), Snapshot(<<z, x>>)}
    /\ commentRanges = updateCommentRanges(loreSnapshot)
    /\ saveTimer = FALSE
    /\ now = 0
    /\ uuidCount = 0
    /\ disk = stringify(loreSnapshot)
    /\ calls = {}
    /\ returned = {}
    /\ last = Op("init")
    /\ NoTimer /\ NoFileCalls
    /\ isHighlightingEnabled = FALSE

NextSave ==
    \/ \E payload \in LoadPayloads, fb \in Fallbacks \ {NoFallback} :
          Upsert(payload, fb)
    \/ \E changes \in LoadChanges : Adjust1("a.ts", changes)
    \/ \E changes \in LoadChanges : Adjust2("a.ts", changes)
    \/ Tick
    \/ SaveLater
    \/ WriteOpens
    \/ WritesData
    \/ WriteSyncs
    \/ WriteRenames
    \/ WriteIsDone
    \/ WriteRejects

SpecSave == InitSave /\ [][NextSave]_vars

\* The manager with upserts only: every save is one scheduled by an upsert.
NextUpsertSave ==
    \/ \E payload \in LoadPayloads, fb \in Fallbacks \ {NoFallback} :
          Upsert(payload, fb)
    \/ Tick
    \/ SaveLater
    \/ WriteOpens
    \/ WritesData
    \/ WriteSyncs
    \/ WriteRenames
    \/ WriteIsDone
    \/ WriteRejects

SpecUpsertSave == InitSave /\ [][NextUpsertSave]_vars

\* The manager with upserts up to the clock reading MaxClock and one more
\* reading for the timeout of the last of them, on a file system where no
\* call fails: every timeout that is set runs, and every step of a
\* safeWriteJson call is taken in the end.
TickLate == TickTo(MaxClock + wait)

\* `later` runs and JSON.stringify does not throw.
SaveLaterWrites == SaveLater /\ last'.op = "save"

UpsertInTime ==
    /\ now <= MaxClock
    /\ \E payload \in LoadPayloads, fb \in Fallbacks \ {NoFallback} :
          Upsert(payload, fb)

NextLive ==
    \/ UpsertInTime
    \/ TickLate
    \/ SaveLaterWrites
    \/ WriteOpens
    \/ WritesData
    \/ WriteSyncs
    \/ WriteRenames
    \/ WriteIsDone

SpecLive ==
    /\ InitSave /\ [][NextLive]_vars
    /\ WF_vars(TickLate) /\ WF_vars(SaveLaterWrites)
    /\ WF_vars(WriteOpens) /\ WF_vars(WritesData) /\ WF_vars(WriteSyncs)
    /\ WF_vars(WriteRenames) /\ WF_vars(WriteIsDone)

----------------------------------------------------------------------------
(* Properties.                                                             *)

store == loreSnapshot.items

\* The single change of the adjust call that `last` records.
TheChange(op) == op.changes[1]

SingleChange(op) ==
    op.op = "adjust" /\ Len(op.changes) = 1 /\ Delta(TheChange(op)) # 0

Tracked(item, file) == item.state = "active" /\ item.file = file

\* C1: after every adjust call on a store whose records satisfy
\* 1 <= startLine <= endLine, every record has startLine >= 1 and
\* endLine >= startLine, also after deletions that remove more lines than
\* precede a record.
C1_ClampInvariant ==
    \A i \in Range1(Len(store)) :
        store[i].startLine >= 1 /\ store[i].endLine >= store[i].startLine

\* An adjust with one deletion has run whose shift would have taken a record
\* above the first line, and the record sits on line 1.
C1_Witness ==
    /\ SingleChange(last) /\ Delta(TheChange(last)) < 0
    /\ last.clamped
    /\ \E i \in Range1(Len(store)) :
          Tracked(store[i], last.file) /\ store[i].startLine = 1

\* C2: no two records of the store share an id after any sequence of upsert
\* calls, also when two records are created at the same clock reading.
C2_UniqueIds ==
    \A i, j \in Range1(Len(store)) : store[i].id = store[j].id => i = j

\* C3: an upsert whose payload.id is the id of a record replaces that record
\* where it is: the store keeps its length, the record keeps id, state and
\* createdAt, and its updatedAt is the time of the call.
C3_MergeInPlace ==
    [][ (last'.op = "upsert" /\ mergeIndex(store, last'.payload) > 0) =>
          LET idx == mergeIndex(store, last'.payload)
          IN  /\ Len(store') = Len(store)
              /\ store'[idx].id = store[idx].id
              /\ store'[idx].state = store[idx].state
              /\ store'[idx].createdAt = store[idx].createdAt
              /\ store'[idx].updatedAt = now ]_vars

\* The record "x" of the initial store has been merged into at a later time.
C3_Witness ==
    /\ last.op = "upsert" /\ last.payload.id = "x" /\ ~last.created
    /\ now = 1
    /\ Len(store) >= 1 /\ store[1].id = "x"
    /\ store[1].createdAt = 0 /\ store[1].updatedAt = 1

\* C4: an upsert whose payload.id matches no record adds exactly one record,
\* which carries that id, and leaves every record that was there as it was and
\* where it was.
C4_CreateWithGivenId ==
    [][ (/\ last'.op = "upsert" /\ last'.payload.id # ""
         /\ IndexOfId(store, last'.payload.id) = 0) =>
          /\ Len(store') = Len(store) + 1
          /\ store'[Len(store')].id = last'.payload.id
          /\ \A i \in Range1(Len(store)) : store'[i] = store[i] ]_vars

\* A record with the given id "y" has been pushed behind the untouched "x".
C4_Witness ==
    /\ last.op = "upsert" /\ last.payload.id = "y" /\ last.created
    /\ Len(store) = 2
    /\ store[1].id = "x" /\ store[1].updatedAt = 0
    /\ store[2].id = "y"

\* C5: two upserts with the same payload, whose id matched no record before
\* the first, leave exactly one record with that id: the second call updates
\* and pushes nothing.
C5_UpsertTwice ==
    (last.op = "upsert" /\ last.again /\ last.payload.id # "") =>
        /\ ~last.created
        /\ Cardinality({i \in Range1(Len(store)) :
                           store[i].id = last.payload.id}) = 1

\* The payload with the unknown id "y" has been upserted twice in a row.
C5_Witness ==
    /\ last.op = "upsert" /\ last.again /\ last.payload.id = "y"
    /\ \E i \in Range1(Len(store)) : store[i].id = "y"

\* C6: a merge whose payload has no file, startLine and endLine leaves the
\* record's file and location as they were, whatever the fallback values.
C6_MergeKeepsLocation ==
    [][ (/\ last'.op = "upsert" /\ mergeIndex(store, last'.payload) > 0
         /\ last'.payload.file = "" /\ last'.payload.startLine = 0
         /\ last'.payload.endLine = 0) =>
          LET idx == mergeIndex(store, last'.payload)
          IN  /\ store'[idx].file = store[idx].file
              /\ store'[idx].startLine = store[idx].startLine
              /\ store'[idx].endLine = store[idx].endLine ]_vars

\* C7: once upsertLoreItem has returned an id, a record with that id stays in
\* the store through upserts, adjusts and the startup load.
C7_ReturnedIdsStay ==
    \A id \in returned : id \in Ids(store)

\* C8: under an edit with delta # 0, an active one-line record at or after the
\* edit's start line, and an active multi-line record that starts after it,
\* have startLine and endLine shifted by delta, each kept at 1 or more.
C8_ShiftByDelta ==
    [][ SingleChange(last') =>
          LET ch == TheChange(last')
          IN  \A i \in Range1(Len(store)) :
                (/\ Tracked(store[i], last'.file)
                 /\ \/ /\ store[i].startLine = store[i].endLine
                       /\ ch.startLine <= store[i].startLine - 1
                    \/ /\ store[i].startLine < store[i].endLine
                       /\ ch.startLine < store[i].startLine - 1)
                => /\ store'[i].startLine = Max(1, store[i].startLine + Delta(ch))
                   /\ store'[i].endLine = Max(1, store[i].endLine + Delta(ch)) ]_vars

\* C9: under an edit with delta # 0 that starts inside an active multi-line
\* record, the record keeps its startLine and its end becomes
\* max(start, end + delta).
C9_EditInside ==
    [][ SingleChange(last') =>
          LET ch == TheChange(last')
          IN  \A i \in Range1(Len(store)) :
                (/\ Tracked(store[i], last'.file)
                 /\ store[i].startLine < store[i].endLine
                 /\ store[i].startLine - 1 <= ch.startLine
                 /\ ch.startLine <= store[i].endLine - 1)
                => /\ store'[i].startLine = store[i].startLine
                   /\ store'[i].endLine =
                         Max(store[i].startLine, store[i].endLine + Delta(ch)) ]_vars

\* C10: an edit that starts after the end line of a record leaves the
\* record's location as it was, whatever its delta.
C10_EditAfter ==
    [][ (last'.op = "adjust" /\ Len(last'.changes) = 1) =>
          \A i \in Range1(Len(store)) :
              TheChange(last').startLine > store[i].endLine - 1
              => /\ store'[i].startLine = store[i].startLine
                 /\ store'[i].endLine = store[i].endLine ]_vars

\* An insertion has been tracked that starts after the end of an active
\* record of the edited file (an insertion does not shrink a record, so the
\* record ended before the edit when the edit came).
C10_Witness ==
    /\ SingleChange(last) /\ Delta(TheChange(last)) > 0
    /\ \E i \in Range1(Len(store)) :
          /\ Tracked(store[i], last.file)
          /\ TheChange(last).startLine > store[i].endLine - 1

\* C11: an adjust, for any file and any list of edits, leaves the location of
\* every record whose state is archived or deleted as it was.
C11_ArchivedUntouched ==
    [][ last'.op = "adjust" =>
          \A i \in Range1(Len(store)) :
              store[i].state # "active"
              => /\ store'[i].startLine = store[i].startLine
                 /\ store'[i].endLine = store[i].endLine ]_vars

\* C12: in every state the per-file index that getLoreItemsForFile reads
\* holds only records of the store whose state is active, in the order of
\* items.
C12_IndexActiveOnly ==
    /\ \A k \in Range1(Len(commentRanges)) :
          /\ commentRanges[k].item \in Range1(Len(store))
          /\ store[commentRanges[k].item].state = "active"
    /\ \A j, k \in Range1(Len(commentRanges)) :
          j < k => commentRanges[j].item < commentRanges[k].item

\* The step is the start of a persisted write: `later` has called saveLore.
SaveStarts(op) ==
    op.op = "save" \/ (op.op = "saveFailed" /\ op.write.pc = "stringify")

\* C13: after one or more mutations a timeout is pending until one write is
\* started; the write is started only when the debounce wait has passed
\* since the last of them, and it writes the store as that mutation left it.
C13_DebounceCoalesces ==
    [][ /\ (SaveStarts(last') /\ mutation.unsaved) =>
              /\ now >= mutation.at + wait
              /\ last'.write.text = Document(mutation.items)
              /\ ~saveTimer'
        /\ mutation'.unsaved => saveTimer' ]_vars

\* C18: once a load has failed on unreadable content, no upsert and no
\* adjust makes the manager write .lore.json: the unreadable content stays.
\* (While the content is unreadable every load fails and none succeeds.)
C18_CorruptFileKept ==
    [][ disk.status = "corrupt" => disk'.status = "corrupt" ]_vars

\* C19: when a debounced save fails, the error is shown, nothing is thrown to
\* the upsert or adjust that scheduled it, and the store is as it was.
C19_SaveFailureContained ==
    [][ last'.op = "saveFailed" =>
          /\ last'.reported /\ ~last'.threw
          /\ loreSnapshot' = loreSnapshot
          /\ commentRanges' = commentRanges ]_vars

\* A save has failed at the rename while the store was ahead of the file.
C19_Witness ==
    /\ last.op = "saveFailed" /\ last.write.pc = "rename"
    /\ last.reported
    /\ disk # stringify(loreSnapshot)

\* C20: an upsert or adjust that changes the store fires onDidChangeLore
\* once, within the call, and the listener finds the store and the index as
\* the call leaves them.
C20_NotifiedAfterCommit ==
    [][ (last'.op \in {"upsert", "adjust"} /\ store' # store) =>
          /\ last'.fired = 1
          /\ last'.seen = View(store', commentRanges') ]_vars

\* The step is a failure of a safeWriteJson call; op.write is the call.
WriteFailed(op) ==
    \/ op.op \in {"writeFailed", "saveFailed"}
    \/ op.op \in {"change", "access"} /\ op.write.pc = "stringify"

C15_NeverPartial ==
    disk.status # "partial" /\ disk \in passed

\* C16: while a call of ensureLoreFile is in flight, a further call gets the
\* pending promise and starts no check and no creation; at most one
\* check-and-create runs at a time.
C16_EnsureCoalesced ==
    [][ /\ (last'.op = "ensureCall" /\ ensureCache = "pending") =>
              /\ last'.joined
              /\ UNCHANGED <<ensures, writes, tmpFiles, disk>>
        /\ Len(ensures') <= 1 ]_vars

\* A call has been answered from the cache while the one body in flight is
\* creating the file.
C16_Witness ==
    /\ last.op = "ensureCall" /\ last.joined
    /\ ensureCache = "pending"
    /\ Len(ensures) = 1 /\ ensures[1].pc = "write"
    /\ disk.status = "missing"

\* C17: ensureLoreFile leaves a file that is there as it is; it writes only
\* after its check found the file missing, and then the initial document
\* with no items; a call after it has succeeded changes nothing on disk.
C17_EnsureOnlyCreates ==
    [][ /\ (last'.op = "access" /\ disk.status # "missing") =>
              UNCHANGED <<disk, writes, tmpFiles>>
        /\ (last'.op = "access" /\ disk.status = "missing") =>
              last'.write.text = initial /\ last'.write.text.items = <<>>
        /\ (last'.write.caller = "ensure" /\ disk' # disk) =>
              disk.status = "missing" /\ disk' = initial
        /\ (last'.op = "ensureCall" /\ ensureCache = "resolved") =>
              UNCHANGED <<disk, writes, tmpFiles, ensures, ensureCache>> ]_vars

\* ensureLoreFile has created the missing file and a later call has been
\* answered from the cache.
C17_Witness ==
    /\ last.op = "ensureCall" /\ last.joined
    /\ ensureCache = "resolved"
    /\ disk = initial /\ NoFile \in passed

\* The record an upsert of the manager has written: the merged one where it
\* was, or the pushed one at the end.
Affected(before, after, op) ==
    IF op.created THEN after[Len(after)]
    ELSE after[mergeIndex(before, op.payload)]

\* C21: upsertLoreItem of the manager returns payload.id when that is not
\* empty, and right after the call getLoreItemById finds, under the returned
\* id, the record the call created or updated.
C21_ReturnsAffectedId ==
    [][ (last'.op = "upsert" /\ variant # "IM") =>
          /\ last'.payload.id # "" => last'.id = last'.payload.id
          /\ last'.id \in returned'
          /\ Affected(store, store', last').id = last'.id
          /\ getLoreItemById(store', last'.id) = Affected(store, store', last') ]_vars

\* The manager has created a record behind another one it had created, and
\* has returned the id it generated.
C21_Witness ==
    /\ variant # "IM"
    /\ last.op = "upsert" /\ last.payload.id = "" /\ last.created
    /\ Len(store) = 2
    /\ store[2].id = last.id /\ store[1].id = Uuid(1) /\ last.id # Uuid(1)

\* A line range as the data model wants it.
ValidRange(startLine, endLine) == 1 <= startLine /\ startLine <= endLine

\* C22: after an upsert whose fallback range is valid and whose payload
\* gives no line, one line or a valid range, the affected record has
\* 1 <= startLine <= endLine.
C22_UpsertRangeValid ==
    [][ (/\ last'.op = "upsert"
         /\ ValidRange(last'.fallback.startLine, last'.fallback.endLine)
         /\ \/ last'.payload.startLine = 0
            \/ last'.payload.endLine = 0
            \/ ValidRange(last'.payload.startLine, last'.payload.endLine)
         /\ \A i \in Range1(Len(store)) :
               ValidRange(store[i].startLine, store[i].endLine)) =>
          ValidRange(Affected(store, store', last').startLine,
                     Affected(store, store', last').endLine) ]_vars

\* C29: when an upsert merges into a record and payload.summary is the
\* empty string, the record keeps its summary.
C29_EmptyFieldKept ==
    [][ (last'.op = "upsert" /\ ~last'.created /\ last'.payload.summary = "") =>
          Affected(store, store', last').summary
              = store[mergeIndex(store, last'.payload)].summary ]_vars

\* The step is a mutation of the store.
Mutates(op) == op.op \in {"upsert", "upsertCall", "adjust"}

\* C23: where no write fails, if from some point on no mutation comes, then
\* from some point on .lore.json holds the store, also when a mutation came
\* while a write was in flight.
C23_FileCatchesUp ==
    <>[][~Mutates(last')]_vars => <>[](disk = stringify(loreSnapshot))

\* The safeWriteJson calls of saveLore that are in flight.
SavesInFlight == {i \in Range1(Len(writes)) : writes[i].caller = "save"}

\* C24: at no time are two writes of .lore.json by the manager in flight:
\* a debounced save does not start before the one before it has settled.
C24_OneSaveAtATime ==
    Cardinality(SavesInFlight) <= 1

\* C25: two safeWriteJson calls in flight at the same time have different
\* temporary file names, also when both read the same Date.now().
C25_TmpNamesDiffer ==
    \A i, j \in Range1(Len(writes)) : i # j => writes[i].tmp # writes[j].tmp

\* The locations of the records, in the order of items.
Locations(items) ==
    [i \in Range1(Len(items)) |-> <<items[i].startLine, items[i].endLine>>]

\* C27: an adjust that changes no location schedules no save and fires no
\* notification, in particular when its edits have a delta but lie after
\* every record of the file.
C27_QuietWhenNothingMoved ==
    [][ (last'.op = "adjust" /\ Locations(store') = Locations(store)) =>
          /\ saveTimer' = saveTimer /\ timerDue' = timerDue
          /\ last'.fired = 0 ]_vars

\* The changes of a call that have a delta.
WithDelta(changes) == SelectSeq(changes, LAMBDA ch : Delta(ch) # 0)

\* C28: an adjust whose edits all have delta 0 changes no record, schedules
\* no save and fires no notification; in any adjust the edits with delta 0
\* count for nothing: the store is what the other edits alone make of it.
C28_ZeroDeltaSkipped ==
    [][ last'.op = "adjust" =>
          /\ WithDelta(last'.changes) = <<>> =>
                /\ store' = store /\ commentRanges' = commentRanges
                /\ saveTimer' = saveTimer /\ timerDue' = timerDue
                /\ last'.fired = 0
          /\ variant = "LM2" =>
                store' = applyChanges2(store, last'.file, WithDelta(last'.changes))
          /\ variant = "LM1" =>
                store' = applyChanges1([items |-> store, ranges |-> commentRanges,
                                        threw |-> FALSE],
                                       JoinRoot(last'.file),
                                       WithDelta(last'.changes)).items ]_vars

\* An adjust of two in-place edits has run, at or before the line of an
\* active record of the file, and no save is scheduled.
C28_Witness ==
    /\ last.op = "adjust" /\ Len(last.changes) = 2
    /\ WithDelta(last.changes) = <<>>
    /\ ~saveTimer
    /\ \E i \in Range1(Len(store)) :
          /\ Tracked(store[i], last.file)
          /\ last.changes[1].startLine <= store[i].startLine - 1

\* C30: under a deletion whose range covers every line of an active
\* multi-line record, the record stays active and becomes the one line at
\* the start line of the edit (second definition of the tracker).
C30_CollapseAtEdit ==
    [][ (SingleChange(last') /\ variant = "LM2") =>
          LET ch == TheChange(last')
          IN  \A i \in Range1(Len(store)) :
                (/\ Tracked(store[i], last'.file)
                 /\ store[i].startLine < store[i].endLine
                 /\ ch.newLines = 0
                 /\ ch.startLine <= store[i].startLine - 1
                 /\ store[i].endLine - 1 <= ch.endLine)
                => /\ store'[i].state = "active"
                   /\ store'[i].startLine = ch.startLine + 1
                   /\ store'[i].endLine = ch.startLine + 1 ]_vars

\* The step is an upsert, or an adjust that changes a location.
MutatesStore(before, after, op) ==
    \/ op.op = "upsert"
    \/ op.op = "adjust" /\ Locations(after) # Locations(before)

\* C26: a failed save sets no timeout and starts no write, so that no write
\* follows it by itself; an upsert or location-changing adjust that comes
\* next sets the timeout again, and every save that starts writes the store
\* as it is then.
C26_RetryOnNextMutation ==
    [][ /\ last'.op = "saveFailed" =>
              /\ saveTimer' => saveTimer
              /\ Len(writes') <= Len(writes)
        /\ (last.op = "saveFailed" /\ ~saveTimer) => ~SaveStarts(last')
        /\ (last.op = "saveFailed" /\ MutatesStore(store, store', last')) =>
              saveTimer' /\ timerDue' = now + wait
        /\ SaveStarts(last') => last'.write.text = stringify(loreSnapshot) ]_vars

\* The step is a failure of ensureLoreFile: its safeWriteJson call failed.
EnsureFailed(op) == WriteFailed(op) /\ op.write.caller = "ensure"

\* C31: when ensureLoreFile fails, the entry of ensureCache is removed and
\* every caller that holds the pending promise, the joined ones included,
\* gets the failure; the next call starts a fresh check.
C31_FailedEnsureRetried ==
    [][ /\ EnsureFailed(last') =>
              /\ ensureCache' = "none"
              /\ waiters >= 1 /\ last'.answered = waiters /\ waiters' = 0
        /\ (EnsureFailed(last) /\ last'.op = "ensureCall") =>
              /\ ~last'.joined
              /\ ensures' = Append(ensures, [pc |-> "access"])
              /\ ensureCache' = "pending" ]_vars

\* The creation of the missing file has failed at the rename while a second
\* caller had joined the call; both got the failure and the file is missing.
C31_Witness ==
    /\ EnsureFailed(last) /\ last.write.pc = "rename"
    /\ last.answered >= 2
    /\ ensureCache = "none" /\ ensures = <<>>
    /\ disk.status = "missing"

\* The step is the continuation of the loadLore() that call c awaited.
LoadCompletes(c) == c \in calls /\ c.pc = "resume" /\ calls' = calls \ {c}

\* C32: when a load fails, an error message is shown and the store becomes
\* an empty one (for the load an upsert awaited: the empty one plus that
\* upsert's record); after every completed load the store is not null, so
\* that no upsert raises the 'could not be loaded' error.
C32_LoadFallsBack ==
    [][ \A c \in calls : LoadCompletes(c) =>
          /\ readFails(c.data) =>
                /\ last'.reported
                /\ c.kind = "init" => loreSnapshot' = emptySnapshot(now)
                /\ c.kind = "upsert" =>
                      store' = upsertItems(<<>>, c.payload, c.fb.file,
                                           c.fb.startLine, c.fb.endLine, now)
          /\ ~loreSnapshot'.isNull
          /\ last'.op # "upsertFailed" ]_vars

\* The store after two adjust calls in a row, one with the edit e1 and one
\* with the edit e2, on the document `file`.
TwoCalls(items, ranges, file, e1, e2) ==
    IF variant = "LM2"
    THEN applyChanges2(applyChanges2(items, file, <<e1>>), file, <<e2>>)
    ELSE LET st1 == applyChanges1([items |-> items, ranges |-> ranges,
                                   threw |-> FALSE], JoinRoot(file), <<e1>>)
         IN  applyChanges1([items |-> st1.items, ranges |-> st1.ranges,
                            threw |-> FALSE], JoinRoot(file), <<e2>>).items

\* C33: an adjust call with the edits e1, e2 leaves every record where a
\* call with e1 followed by a call with e2 leaves it.
C33_InOrderAsTwoCalls ==
    [][ (last'.op = "adjust" /\ Len(last'.changes) = 2) =>
          store' = TwoCalls(store, commentRanges, last'.file,
                            last'.changes[1], last'.changes[2]) ]_vars

\* The call that `op` records was an adjust with the one change ch that ran
\* to its end.
AdjustedBy(op, ch) == op.op = "adjust" /\ op.changes = <<ch>> /\ ~op.threw

\* C34: an adjust for the insertion of k >= 1 lines at a line L, followed by
\* an adjust of the same document for the deletion of those lines, leaves
\* every record where it was before the insertion.
C34_InsertThenDelete ==
    [][ \A L \in 0..(MaxLine - 1), k \in 1..MaxEditLines :
          (/\ AdjustedBy(last, Insertion(L, k))
           /\ last'.op = "adjust" /\ last'.changes = <<Deletion(L, k)>>
           /\ last'.file = last.file) =>
              /\ ~last'.threw
              /\ Locations(store') = Locations(last.was) ]_vars

\* The first record, which only an insertion above it can have taken to a
\* line beyond those it can start at, has come back to line 1 by the
\* deletion of the MaxEditLines lines above it.
C34_Witness ==
    /\ AdjustedBy(last, Deletion(0, MaxEditLines))
    /\ Tracked(store[1], last.file)
    /\ last.was[1].startLine = 1 + MaxEditLines
    /\ last.was[1].startLine > MaxLine - 2
    /\ store[1].startLine = 1 /\ store[1].endLine = 1

\* C35: an active record with startLine = endLine has startLine = endLine
\* after every adjust call.
C35_SingleLineStays ==
    [][ last'.op = "adjust" =>
          \A i \in Range1(Len(store)) :
              (store[i].state = "active" /\ store[i].startLine = store[i].endLine)
              => store'[i].startLine = store'[i].endLine ]_vars

\* A record without its location.
Unlocated(item) == [item EXCEPT !.startLine = 0, !.endLine = 0]

\* C36: an adjust for a document changes only startLine and endLine, and
\* only of the active records of that document: every other record and every
\* other field is as it was.
C36_AdjustFrame ==
    [][ last'.op = "adjust" =>
          /\ Len(store') = Len(store)
          /\ \A i \in Range1(Len(store)) :
                /\ Unlocated(store'[i]) = Unlocated(store[i])
                /\ ~Tracked(store[i], last'.file) => store'[i] = store[i] ]_vars

\* The index the store asks for: one entry for each record with non-zero
\* start and end line, under its file, with the record's lines minus one.
RECURSIVE indexFrom(_, _)
indexFrom(items, i) ==
    IF i > Len(items) THEN <<>>
    ELSE IF items[i].startLine # 0 /\ items[i].endLine # 0
    THEN <<[file |-> JoinRoot(items[i].file), start |-> items[i].startLine - 1,
            end |-> items[i].endLine - 1, item |-> i]>>
         \o indexFrom(items, i + 1)
    ELSE indexFrom(items, i + 1)

\* C37: in every state the per-file index holds exactly the records of the
\* store that have a location, each with its current lines minus one.
C37_IndexAgrees ==
    commentRanges = indexFrom(store, 1)

\* `items` holds a record with the id, at these lines.
Locates(items, id, startLine, endLine) ==
    /\ getLoreItemById(items, id) # NotFound
    /\ getLoreItemById(items, id).startLine = startLine
    /\ getLoreItemById(items, id).endLine = endLine

\* C38: the document a save from an edit panel writes holds every record
\* .lore.json holds when the save is made, and every record but the edited
\* one where the file has it.
C38_PanelSaveKeepsFile ==
    [][ (last'.op = "editSave" /\ disk.status = "ok") =>
          \A i \in Range1(Len(disk.items)) :
              LET r == disk.items[i]
              IN  /\ getLoreItemById(last'.write.text.items, r.id) # NotFound
                  /\ r.id # last'.payload.id =>
                        Locates(last'.write.text.items, r.id,
                                r.startLine, r.endLine) ]_vars

\* C39: a save serializes the store of the moment it starts; no step changes
\* the text of a write in flight, and a mutation touches neither the writes
\* nor the files; the rename of a save puts exactly that text in .lore.json,
\* whatever the store has become since.
C39_WriteIsOneInstant ==
    [][ /\ last'.op = "save" =>
              /\ last'.write.text = stringify(loreSnapshot)
              /\ writes'[Len(writes')].text = stringify(loreSnapshot)
        /\ last'.op # "save" =>
              \A i \in Range1(Len(writes')) :
                  \E j \in Range1(Len(writes)) :
                      /\ writes[j].tmp = writes'[i].tmp
                      /\ writes[j].text = writes'[i].text
        /\ Mutates(last') =>
              /\ writes' = writes
              /\ tmpFiles' = tmpFiles
              /\ disk' = disk
        /\ (last'.op = "rename" /\ last'.write.caller = "save") =>
              disk' = last'.write.text ]_vars

\* A save was renamed into place after an upsert had changed the store
\* during its I/O: the file holds the store of the start of the save.
C39_Witness ==
    /\ last.op = "rename" /\ last.write.caller = "save"
    /\ stringify(loreSnapshot) # last.write.text
    /\ disk = last.write.text

====
